---- MODULE Spec2Model ----
(***************************************************************************)
(* TipsAndTricks.ipynb: vectorised N-body acceleration, SPH kernel and     *)
(* pairwise dot product.  Each notebook section is a pure computation on   *)
(* its inputs; a section is modelled as the sequence of its code cells,    *)
(* one action per cell, and numpy's arrays as nested sequences of exact    *)
(* rationals extended with IEEE's nan and +-inf.                           *)
(***************************************************************************)
EXTENDS Integers, Sequences, FiniteSets, TLC

VARIABLES pc, N, mass, S, dS, pos, xi, xj, dxij, acc_matrix,
          h, rij, R, I1, I2, W, dW, wrote, out27, out29,
          dvij, dxdvij_A, dxdvij_B, dxdvij_C, out41

vars == <<pc, N, mass, S, dS, pos, xi, xj, dxij, acc_matrix,
          h, rij, R, I1, I2, W, dW, wrote, out27, out29,
          dvij, dxdvij_A, dxdvij_B, dxdvij_C, out41>>

forceVars  == <<mass, S, dS, xi, xj, acc_matrix>>
kernelVars == <<h, rij, R, I1, I2, W, dW, wrote, out27, out29>>
dotVars    == <<dvij, dxdvij_A, dxdvij_B, dxdvij_C, out41>>

\* A name of the notebook that no executed cell has bound yet.
Unbound == "unbound"

(***************************************************************************)
(* Bounds of the input sets.                                               *)
(***************************************************************************)
MaxBodies    == 2   \* force section: 1..MaxBodies bodies and mass entries
MaxParticles == 3   \* kernel section: 1..MaxParticles particles
MaxDotN      == 2   \* dot-product section: 1..MaxDotN particles
MaxK         == 2   \* positions are k*(1,2,2), k in 0..MaxK
MaxV         == 1   \* velocities are k*(1,2,2), k in 0..MaxV
MaxMass      == 2   \* masses are 0..MaxMass
MaxH         == 4   \* smoothing lengths are 1..MaxH
MaxDv        == 1   \* relative-velocity entries are drawn from DvVecs

(***************************************************************************)
(* Floating-point values: a finite value is an exact fraction n/d in       *)
(* lowest terms with d > 0; d = 0 encodes nan (n = 0), +inf (n = 1) and    *)
(* -inf (n = -1).  Rounding and the sign of zero are not modelled.         *)
(***************************************************************************)
Abs(x) == IF x < 0 THEN -x ELSE x
Sgn(x) == IF x < 0 THEN -1 ELSE IF x > 0 THEN 1 ELSE 0

RECURSIVE GCD(_, _)
GCD(a, b) == IF b = 0 THEN a ELSE GCD(b, a % b)

Rat(n, d) ==
    LET g == GCD(Abs(n), Abs(d))
    IN [n |-> Sgn(n) * Sgn(d) * (Abs(n) \div g), d |-> Abs(d) \div g]

Num(k) == [n |-> k, d |-> 1]
NaN    == [n |-> 0, d |-> 0]
Inf(s) == [n |-> s, d |-> 0]
Zero   == Num(0)

IsNaN(a)    == a.d = 0 /\ a.n = 0
IsFinite(a) == a.d > 0

RAdd(a, b) ==
    IF IsNaN(a) \/ IsNaN(b) THEN NaN
    ELSE IF a.d = 0 /\ b.d = 0 THEN (IF a.n = b.n THEN a ELSE NaN)
    ELSE IF a.d = 0 THEN a
    ELSE IF b.d = 0 THEN b
    ELSE LET g == GCD(a.d, b.d)
         IN Rat(a.n * (b.d \div g) + b.n * (a.d \div g), (a.d \div g) * b.d)

RNeg(a) == [n |-> -a.n, d |-> a.d]
RSub(a, b) == RAdd(a, RNeg(b))

RMul(a, b) ==
    IF IsNaN(a) \/ IsNaN(b) THEN NaN
    ELSE IF a.d = 0 \/ b.d = 0
         THEN (IF a.n = 0 \/ b.n = 0 THEN NaN ELSE Inf(Sgn(a.n) * Sgn(b.n)))
    ELSE Rat(a.n * b.n, a.d * b.d)

\* IEEE true division: 0/0 and inf/inf are nan, x/0 is +-inf.
RDiv(a, b) ==
    IF IsNaN(a) \/ IsNaN(b) THEN NaN
    ELSE IF a.d = 0 /\ b.d = 0 THEN NaN
    ELSE IF b.d = 0 THEN Zero
    ELSE IF a.d = 0 THEN Inf(a.n * (IF b.n < 0 THEN -1 ELSE 1))
    ELSE IF b.n = 0 THEN (IF a.n = 0 THEN NaN ELSE Inf(Sgn(a.n)))
    ELSE Rat(a.n * b.d, a.d * b.n)

RPow2(a) == RMul(a, a)
RPow3(a) == RMul(a, RMul(a, a))

\* Comparisons; any comparison with nan is False.
RLt(a, b) == ~IsNaN(a) /\ ~IsNaN(b) /\ a.n * b.d < b.n * a.d
RGe(a, b) == ~IsNaN(a) /\ ~IsNaN(b) /\ a.n * b.d >= b.n * a.d

\* Square root, exact on the squares the input sets produce (CHOOSE is
\* undefined, and TLC stops, on any other argument).
ISqrt(n) == CHOOSE k \in 0..n : k * k = n
RSqrt(a) ==
    IF a.d = 0 THEN (IF a.n = 1 THEN a ELSE NaN)
    ELSE IF a.n < 0 THEN NaN
    ELSE Rat(ISqrt(a.n), ISqrt(a.d))

(***************************************************************************)
(* 3-vectors (the last axis of every array of the notebook).               *)
(***************************************************************************)
VSub(u, v)   == [k \in 1..3 |-> RSub(u[k], v[k])]
VScale(c, v) == [k \in 1..3 |-> RMul(c, v[k])]
VDivS(v, c)  == [k \in 1..3 |-> RDiv(v[k], c)]
VNeg(v)      == [k \in 1..3 |-> RNeg(v[k])]
VZero        == [k \in 1..3 |-> Zero]

\* np.linalg.norm(., axis=2) on one entry of the last axis.
Norm(v) == RSqrt(RAdd(RPow2(v[1]), RAdd(RPow2(v[2]), RPow2(v[3]))))

\* np.sum over a sequence of scalars, left to right.
RECURSIVE SumSeq(_)
SumSeq(s) == IF s = <<>> THEN Zero ELSE RAdd(SumSeq(SubSeq(s, 1, Len(s) - 1)), s[Len(s)])

\* np.nansum: not-a-number entries are treated as zero, the rest are summed.
NanSum(s) == SumSeq([k \in 1..Len(s) |-> IF IsNaN(s[k]) THEN Zero ELSE s[k]])

(***************************************************************************)
(* Input sets.                                                             *)
(***************************************************************************)
Vec(k)   == <<Num(k), Num(2 * k), Num(2 * k)>>
PosVecs  == {Vec(k) : k \in 0..MaxK}
VelVecs  == {Vec(k) : k \in 0..MaxV}
DvVecs   == {<<Num(k), Num(1 - k), Num(2)>> : k \in 0..MaxDv}

\* numpy broadcasting of two axis lengths; 0 stands for the ValueError
\* "operands could not be broadcast together".
Bcast(a, b) == IF a = b THEN a ELSE IF a = 1 THEN b ELSE IF b = 1 THEN a ELSE 0
\* Index into an axis of length len that is broadcast (stretched when len = 1).
Bx(len, i) == IF len = 1 THEN 1 ELSE i

\* a - b on arrays of shape (n1, m1, 3) and (n2, m2, 3), with broadcasting
\* of the first two axes.
BSub(a, b) ==
    [i \in 1..Bcast(Len(a), Len(b)) |->
        [j \in 1..Bcast(Len(a[1]), Len(b[1])) |->
            VSub(a[Bx(Len(a), i)][Bx(Len(a[1]), j)],
                 b[Bx(Len(b), i)][Bx(Len(b[1]), j)])]]

\* arr[:, np.newaxis] and arr[np.newaxis] of an (n, 3) array.
NewAxis1(arr) == [i \in 1..Len(arr) |-> <<arr[i]>>]
NewAxis0(arr) == <<arr>>

\* The grid of the values f(i, j) over the first two axes of a.
Grid(a, f(_, _)) == [i \in 1..Len(a) |-> [j \in 1..Len(a[i]) |-> f(i, j)]]

\* np.linalg.norm(d, axis=2) of an (n, m, 3) array.
NormAxis2(d) == [i \in 1..Len(d) |-> [j \in 1..Len(d[i]) |-> Norm(d[i][j])]]

(***************************************************************************)
(* Section 1: force derivative (cells 2-15).                               *)
(***************************************************************************)
\* constants.G.value, in units in which it is 1: every acceleration below
\* is a multiple of G.
G == 1

\* Cell 2: N bodies, their masses and the state vector S = hstack((pos, vel))
\* with columns x, y, z, vx, vy, vz.  The notebook's sample values
\* (np.arange and rng.uniform) are replaced by arbitrary caller data: a mass
\* array of any length, positions and velocities from the input sets.
Init ==
    /\ pc = "cell4"
    /\ N \in 1..MaxBodies
    /\ \E M \in 1..(MaxBodies + 1) : mass \in [1..M -> {Num(m) : m \in 0..MaxMass}]
    /\ pos \in [1..N -> PosVecs]
    /\ \E vel \in [1..N -> VelVecs] : S = [i \in 1..N |-> pos[i] \o vel[i]]
    /\ dS = Unbound /\ xi = Unbound /\ xj = Unbound
    /\ dxij = Unbound /\ acc_matrix = Unbound
    /\ h = Unbound /\ rij = Unbound /\ R = Unbound /\ I1 = Unbound /\ I2 = Unbound
    /\ W = Unbound /\ dW = Unbound /\ wrote = Unbound
    /\ out27 = Unbound /\ out29 = Unbound
    /\ dvij = Unbound /\ dxdvij_A = Unbound /\ dxdvij_B = Unbound
    /\ dxdvij_C = Unbound /\ out41 = Unbound

\* Cell 4: dS = np.zeros_like(S); dS[:, :3] = S[:, 3:]
Cell4 ==
    /\ pc = "cell4"
    /\ dS' = [i \in 1..Len(S) |-> SubSeq(S[i], 4, 6) \o VZero]
    /\ pc' = "cell6"
    /\ UNCHANGED <<N, mass, S, pos, xi, xj, dxij, acc_matrix, kernelVars, dotVars>>

\* Cell 6: pos = S[:, 3:]
PosColumns(row) == SubSeq(row, 4, 6)
Cell6 ==
    /\ pc = "cell6"
    /\ pos' = [i \in 1..Len(S) |-> PosColumns(S[i])]
    /\ pc' = "cell7"
    /\ UNCHANGED <<N, mass, S, dS, xi, xj, dxij, acc_matrix, kernelVars, dotVars>>

\* Cell 7: xi = pos[:, np.newaxis]; xj = pos[np.newaxis]
Cell7 ==
    /\ pc = "cell7"
    /\ xi' = NewAxis1(pos)
    /\ xj' = NewAxis0(pos)
    /\ pc' = "cell8"
    /\ UNCHANGED <<N, mass, S, dS, pos, dxij, acc_matrix, kernelVars, dotVars>>

\* Cell 8: dxij = xi - xj
Cell8 ==
    /\ pc = "cell8"
    /\ dxij' = BSub(xi, xj)
    /\ pc' = "cell10"
    /\ UNCHANGED <<N, mass, S, dS, pos, xi, xj, acc_matrix, kernelVars, dotVars>>

\* Cell 10: mass = mass[np.newaxis, :, np.newaxis], shape (1, M, 1)
Cell10 ==
    /\ pc = "cell10"
    /\ mass' = <<[j \in 1..Len(mass) |-> <<mass[j]>>]>>
    /\ pc' = "cell12"
    /\ UNCHANGED <<N, S, dS, pos, xi, xj, dxij, acc_matrix, kernelVars, dotVars>>

\* The axis-1 length of G * mass * dxij / norm[..., np.newaxis] for a mass of
\* shape (1, M, 1) and a dxij of shape (n, n, 3); 0 when numpy raises.
AccCols(M, n) == IF Bcast(M, n) = 0 THEN 0 ELSE Bcast(Bcast(M, n), n)

\* The divisor of the pair term: np.linalg.norm(dxij, axis=2)[..., np.newaxis].
PairDivisor(d) == NormAxis2(d)

\* G * mass * dxij / np.linalg.norm(dxij, axis=2)[..., np.newaxis],
\* evaluated left to right with broadcasting.
AccMatrix(m, d) ==
    LET M    == Len(m[1])
        n    == Len(d)
        B1   == Bcast(M, n)
        div  == PairDivisor(d)
        num  == [i \in 1..n |-> [j \in 1..B1 |->
                    VScale(RMul(Num(G), m[1][Bx(M, j)][1]), d[i][Bx(n, j)])]]
    IN [i \in 1..n |-> [j \in 1..AccCols(M, n) |->
            VDivS(num[i][Bx(B1, j)], div[i][Bx(n, j)])]]

\* Cell 12: acc_matrix = G * mass * dxij / norm; numpy raises ValueError
\* when the shapes (1, M, 1) and (N, N, 3) cannot be broadcast.
Cell12 ==
    /\ pc = "cell12"
    /\ IF AccCols(Len(mass[1]), Len(dxij)) = 0
       THEN /\ pc' = "ValueError"
            /\ UNCHANGED acc_matrix
       ELSE /\ acc_matrix' = AccMatrix(mass, dxij)
            /\ pc' = "cell15"
    /\ UNCHANGED <<N, mass, S, dS, pos, xi, xj, dxij, kernelVars, dotVars>>

\* np.nansum(a, axis=1) of an (n, m, 3) array.
NanSumAxis1(a) ==
    [i \in 1..Len(a) |-> [k \in 1..3 |-> NanSum([j \in 1..Len(a[i]) |-> a[i][j][k]])]]

\* Cell 15: dS[:, 3:] = -np.nansum(acc_matrix, axis=1)
Cell15 ==
    /\ pc = "cell15"
    /\ dS' = [i \in 1..Len(dS) |-> SubSeq(dS[i], 1, 3) \o VNeg(NanSumAxis1(acc_matrix)[i])]
    /\ pc' = "done"
    /\ UNCHANGED <<N, mass, S, pos, xi, xj, dxij, acc_matrix, kernelVars, dotVars>>

Next == Cell4 \/ Cell6 \/ Cell7 \/ Cell8 \/ Cell10 \/ Cell12 \/ Cell15

Spec == Init /\ [][Next]_vars

(***************************************************************************)
(* Section 2: kernel and neighbour counts (cells 18-29).                   *)
(***************************************************************************)
\* Cell 18: the smoothing length h, N particles and their positions.  The
\* notebook's sample values (h = 0.004, 400 particles on two linspace
\* segments that both contain x = 0) are replaced by arbitrary caller data;
\* two particles may share a position, as the notebook's particles 319 and
\* 320 do.
InitKernel ==
    /\ pc = "cell19"
    /\ N \in 1..MaxParticles
    /\ h \in {Num(k) : k \in 1..MaxH}
    /\ pos \in [1..N -> PosVecs]
    /\ mass = Unbound /\ S = Unbound /\ dS = Unbound /\ xi = Unbound /\ xj = Unbound
    /\ dxij = Unbound /\ acc_matrix = Unbound
    /\ rij = Unbound /\ R = Unbound /\ I1 = Unbound /\ I2 = Unbound
    /\ W = Unbound /\ dW = Unbound /\ wrote = Unbound
    /\ out27 = Unbound /\ out29 = Unbound
    /\ dvij = Unbound /\ dxdvij_A = Unbound /\ dxdvij_B = Unbound
    /\ dxdvij_C = Unbound /\ out41 = Unbound

\* Mutant: the two copies are added instead of subtracted.
PairDiff_Sum(p) ==
    [i \in 1..Len(p) |-> [j \in 1..Len(p) |-> [k \in 1..3 |-> RAdd(p[i][k], p[j][k])]]]

\* pos[:, np.newaxis] - pos[np.newaxis]
PairDiff(p) == BSub(NewAxis1(p), NewAxis0(p))

\* np.linalg.norm(dxij, axis=2) / h
ScaledDist(d, hh) == [i \in 1..Len(d) |-> [j \in 1..Len(d[i]) |-> RDiv(Norm(d[i][j]), hh)]]

\* Cell 19: dxij, rij and R
Cell19 ==
    /\ pc = "cell19"
    /\ dxij' = PairDiff(pos)
    /\ rij' = NormAxis2(PairDiff(pos))
    /\ R' = ScaledDist(PairDiff(pos), h)
    /\ pc' = "cell21"
    /\ UNCHANGED <<N, pos, h, forceVars, I1, I2, W, dW, wrote, out27, out29, dotVars>>

\* Mutant of the first mask: the bounds of the second mask, copied.
InI1_Shell(r) == RGe(r, Num(1)) /\ RLt(r, Num(2))
\* Mutants of the second mask: the upper, or the lower, comparison is missing.
InI2_NoUpper(r) == RGe(r, Num(1))
InI2_NoLower(r) == RLt(r, Num(2))

\* (R >= 0) & (R < 1) and (R >= 1) & (R < 2), elementwise
InI1(r) == RGe(r, Zero) /\ RLt(r, Num(1))
InI2(r) == RGe(r, Num(1)) /\ RLt(r, Num(2))
Mask1(RR) == [i \in 1..Len(RR) |-> [j \in 1..Len(RR[i]) |-> InI1(RR[i][j])]]
Mask2(RR) == [i \in 1..Len(RR) |-> [j \in 1..Len(RR[i]) |-> InI2(RR[i][j])]]

\* Cell 21: the two boolean masks
Cell21 ==
    /\ pc = "cell21"
    /\ I1' = Mask1(R)
    /\ I2' = Mask2(R)
    /\ pc' = "cell23"
    /\ UNCHANGED <<N, pos, h, forceVars, dxij, rij, R, W, dW, wrote, out27, out29, dotVars>>

\* Cell 23: W = np.zeros_like(rij); dW = np.zeros_like(dxij).  wrote counts
\* the assignments made to each entry of W and of dW.
Cell23 ==
    /\ pc = "cell23"
    /\ W' = [i \in 1..Len(rij) |-> [j \in 1..Len(rij[i]) |-> Zero]]
    /\ dW' = [i \in 1..Len(dxij) |-> [j \in 1..Len(dxij[i]) |-> VZero]]
    /\ wrote' = [W  |-> [i \in 1..Len(rij) |-> [j \in 1..Len(rij[i]) |-> 0]],
                 dW |-> [i \in 1..Len(dxij) |-> [j \in 1..Len(dxij[i]) |-> 0]]]
    /\ pc' = "cell25"
    /\ UNCHANGED <<N, pos, h, forceVars, dxij, rij, R, I1, I2, out27, out29, dotVars>>

alpha == 1

\* alpha * (2 / 3 - R ** 2 + 1 / 2 * R ** 3)
W1(r) == RMul(Num(alpha),
              RAdd(RSub(Rat(2, 3), RPow2(r)), RMul(Rat(1, 2), RPow3(r))))
\* alpha * (1 / 6 * (2 - R) ** 3)
W2(r) == RMul(Num(alpha), RMul(Rat(1, 6), RPow3(RSub(Num(2), r))))
\* alpha * (-2 + 3 / 2 * R) * dxij / h**2
DW1(r, dx, hh) ==
    VDivS(VScale(RMul(Num(alpha), RAdd(Num(-2), RMul(Rat(3, 2), r))), dx), RPow2(hh))
\* alpha * (-1 / 2 * (2 - R) ** 2) * dxij / (h * rij)
DW2(r, dx, hh, dist) ==
    VDivS(VScale(RMul(Num(alpha), RMul(Rat(-1, 2), RPow2(RSub(Num(2), r)))), dx),
          RMul(hh, dist))

\* a[mask] = val: the entries where mask is True are assigned (val[i][j]
\* standing for the value computed from entry (i, j) of the masked
\* operands), the others kept.
MaskAssign(a, mask, val) ==
    [i \in 1..Len(a) |-> [j \in 1..Len(a[i]) |->
        IF mask[i][j] THEN val[i][j] ELSE a[i][j]]]
CountAssign(c, mask) ==
    [i \in 1..Len(c) |-> [j \in 1..Len(c[i]) |-> c[i][j] + IF mask[i][j] THEN 1 ELSE 0]]

\* Cell 25: the four masked assignments, in order
Cell25 ==
    /\ pc = "cell25"
    /\ LET Wa == MaskAssign(W, I1, Grid(R, LAMBDA i, j : W1(R[i][j])))
       IN W' = MaskAssign(Wa, I2, Grid(R, LAMBDA i, j : W2(R[i][j])))
    /\ LET dWa == MaskAssign(dW, I1, Grid(R, LAMBDA i, j : DW1(R[i][j], dxij[i][j], h)))
       IN dW' = MaskAssign(dWa, I2,
                    Grid(R, LAMBDA i, j : DW2(R[i][j], dxij[i][j], h, rij[i][j])))
    /\ wrote' = [W  |-> CountAssign(CountAssign(wrote.W, I1), I2),
                 dW |-> CountAssign(CountAssign(wrote.dW, I1), I2)]
    /\ pc' = "cell27"
    /\ UNCHANGED <<N, pos, h, forceVars, dxij, rij, R, I1, I2, out27, out29, dotVars>>

\* The number of True entries of a sequence of booleans.
CountTrue(b) == Cardinality({q \in 1..Len(b) : b[q]})
\* mask.sum(axis=0): for each column j, the number of rows i with mask[i][j].
SumAxis0(mask) ==
    [j \in 1..Len(mask[1]) |-> Cardinality({i \in 1..Len(mask) : mask[i][j]})]

\* Cell 27: sum(I1[0]), the neighbour count of the first particle
Cell27 ==
    /\ pc = "cell27"
    /\ out27' = CountTrue(I1[1])
    /\ pc' = "cell29"
    /\ UNCHANGED <<N, pos, h, forceVars, dxij, rij, R, I1, I2, W, dW, wrote, out29, dotVars>>

\* Cell 29: I1.sum(axis=0), the neighbour count of every particle
Cell29 ==
    /\ pc = "cell29"
    /\ out29' = SumAxis0(I1)
    /\ pc' = "cell31"
    /\ UNCHANGED <<N, pos, h, forceVars, dxij, rij, R, I1, I2, W, dW, wrote, out27, dotVars>>

NextKernel == Cell19 \/ Cell21 \/ Cell23 \/ Cell25 \/ Cell27 \/ Cell29

SpecKernel == InitKernel /\ [][NextKernel]_vars

(***************************************************************************)
(* Section 3: the dot product of dxij and dvij (cells 31-41).  It reuses   *)
(* the dxij of cell 19, so it runs after section 2 on the same inputs.     *)
(***************************************************************************)
InitDot == InitKernel /\ N <= MaxDotN

\* Cell 31: dvij = rng.normal(size=dxij.shape), any tensor of dxij's shape
Cell31 ==
    /\ pc = "cell31"
    /\ dvij' \in [1..Len(dxij) -> [1..Len(dxij[1]) -> DvVecs]]
    /\ pc' = "cell35"
    /\ UNCHANGED <<N, pos, forceVars, dxij, kernelVars, dxdvij_A, dxdvij_B, dxdvij_C, out41>>

\* The (n, m) array with elements m[i][j]: its shape and its elements in
\* row-major order.
Array(m) ==
    [shape |-> <<Len(m), Len(m[1])>>,
     flat  |-> [q \in 1..(Len(m) * Len(m[1])) |->
                  m[((q - 1) \div Len(m[1])) + 1][((q - 1) % Len(m[1])) + 1]]]

\* np.sum(a * b, axis=2) of two (n, m, 3) arrays
SumProdAxis2(a, b) ==
    Array(Grid(a, LAMBDA i, j : SumSeq([k \in 1..3 |-> RMul(a[i][j][k], b[i][j][k])])))

\* Cell 35: dxdvij_A = np.sum(dxij * dvij, axis=2)
Cell35 ==
    /\ pc = "cell35"
    /\ dxdvij_A' = SumProdAxis2(dxij, dvij)
    /\ pc' = "cell37"
    /\ UNCHANGED <<N, pos, forceVars, dxij, kernelVars, dvij, dxdvij_B, dxdvij_C, out41>>

\* np.einsum("ijk,ijk->ij", a, b): out[i,j] accumulates a[i,j,k] * b[i,j,k]
\* over the contracted index k.
RECURSIVE Contract(_, _, _)
Contract(u, v, k) == IF k = 0 THEN Zero ELSE RAdd(Contract(u, v, k - 1), RMul(u[k], v[k]))
Einsum(a, b) ==
    Array(Grid(a, LAMBDA i, j : Contract(a[i][j], b[i][j], 3)))

\* Cell 37: dxdvij_B = np.einsum("ijk,ijk->ij", dxij, dvij)
Cell37 ==
    /\ pc = "cell37"
    /\ dxdvij_B' = Einsum(dxij, dvij)
    /\ pc' = "cell39"
    /\ UNCHANGED <<N, pos, forceVars, dxij, kernelVars, dvij, dxdvij_A, dxdvij_C, out41>>

\* a[..., None, :] and b[..., :, None]: every 3-vector as a 1x3 row matrix
\* and as a 3x1 column matrix.
AsRow(v) == <<v>>
AsCol(v) == [k \in 1..3 |-> <<v[k]>>]
\* The matrix product of a (p x q) and a (q x r) matrix.
MatMul(x, y) ==
    [a \in 1..Len(x) |-> [c \in 1..Len(y[1]) |->
        SumSeq([b \in 1..Len(y) |-> RMul(x[a][b], y[b][c])])]]
\* a[..., None, :] @ b[..., :, None], of shape (n, m, 1, 1)
BatchedMatMul(a, b) ==
    LET prod(i, j) == MatMul(AsRow(a[i][j]), AsCol(b[i][j]))
        arr == Array(Grid(a, LAMBDA i, j : prod(i, j)[1][1]))
    IN [shape |-> arr.shape \o <<Len(prod(1, 1)), Len(prod(1, 1)[1])>>,
        flat  |-> arr.flat]
\* np.squeeze: every axis of length one is removed, the elements are kept.
Squeeze(a) == [shape |-> SelectSeq(a.shape, LAMBDA d : d # 1), flat |-> a.flat]

\* Cell 39: dxdvij_C = np.squeeze(dxij[..., None, :] @ dvij[..., :, None])
Cell39 ==
    /\ pc = "cell39"
    /\ dxdvij_C' = Squeeze(BatchedMatMul(dxij, dvij))
    /\ pc' = "cell41"
    /\ UNCHANGED <<N, pos, forceVars, dxij, kernelVars, dvij, dxdvij_A, dxdvij_B, out41>>

\* np.allclose(a, b): |a - b| <= atol + rtol * |b| for every element, with
\* numpy's default tolerances and a zero-dimensional operand stretched.
rtol == Rat(1, 100000)
atol == Rat(1, 100000000)
RAbs(a) == [n |-> Abs(a.n), d |-> a.d]
IsClose(x, y) == RGe(RAdd(atol, RMul(rtol, RAbs(y))), RAbs(RSub(x, y)))
AllClose(a, b) ==
    LET len == IF Len(a.flat) >= Len(b.flat) THEN Len(a.flat) ELSE Len(b.flat)
    IN \A q \in 1..len : IsClose(a.flat[Bx(Len(a.flat), q)], b.flat[Bx(Len(b.flat), q)])

\* Cell 41: np.allclose(dxdvij_A, dxdvij_B), np.allclose(dxdvij_B, dxdvij_C)
Cell41 ==
    /\ pc = "cell41"
    /\ out41' = <<AllClose(dxdvij_A, dxdvij_B), AllClose(dxdvij_B, dxdvij_C)>>
    /\ pc' = "done"
    /\ UNCHANGED <<N, pos, forceVars, dxij, kernelVars, dvij, dxdvij_A, dxdvij_B, dxdvij_C>>

NextDot == NextKernel \/ Cell31 \/ Cell35 \/ Cell37 \/ Cell39 \/ Cell41

SpecDot == InitDot /\ [][NextDot]_vars

(***************************************************************************)
(* Properties of the force section.                                        *)
(***************************************************************************)
\* The position columns of row i of S (x, y, z | vx, vy, vz).
Position(i) == SubSeq(S[i], 1, 3)

\* The number of entries of the mass array, before and after cell 10.
MassCount == IF pc \in {"cell4", "cell6", "cell7", "cell8", "cell10"}
             THEN Len(mass) ELSE Len(mass[1])
MassOf(j) == mass[1][j][1]

\* 1..n without i, in increasing order.
Others(i, n) == [q \in 1..(n - 1) |-> IF q < i THEN q ELSE q + 1]

\* -sum_{j # i} G * mass[j] * (x_i - x_j) / |x_i - x_j|^3, from the positions.
InverseSquareAcc(i) ==
    LET term(j) == LET d == VSub(Position(i), Position(j))
                   IN VDivS(VScale(RMul(Num(G), MassOf(j)), d), RPow3(Norm(d)))
        js == Others(i, N)
    IN [k \in 1..3 |-> RNeg(SumSeq([q \in 1..Len(js) |-> term(js[q])[k]]))]

DistinctPositions == \A i, j \in 1..N : i # j => Position(i) # Position(j)

\* C1: with pairwise distinct positions, the velocity-derivative columns of
\* dS hold -sum_{j # i} G * mass[j] * dx[i,j] / |dx[i,j]|^3 for every i.
C1_InverseCube ==
    (pc = "done" /\ MassCount = N /\ DistinctPositions)
        => \A i \in 1..N : SubSeq(dS[i], 4, 6) = InverseSquareAcc(i)

\* C2: once dxij is computed, dxij[i,j] = position[i] - position[j] for all
\* i # j, position being the first three columns of S.
C2_SeparationFromPositions ==
    (pc \in {"cell10", "cell12", "cell15", "done", "ValueError"})
        => \A i, j \in 1..N : i # j => dxij[i][j] = VSub(Position(i), Position(j))

\* The pair term (i, j) is not-a-number, hence discarded by np.nansum.
Discarded(i, j) == \E k \in 1..3 : IsNaN(acc_matrix[i][j][k])

\* C3: the terms np.nansum discards are exactly the self-interaction terms,
\* and a coincident distinct pair never leaves a finite result for i.
C3_OnlySelfTermsDiscarded ==
    (pc = "done" /\ MassCount = N)
        => /\ \A i, j \in 1..N : Discarded(i, j) <=> i = j
           /\ \A i, j \in 1..N :
                 (i # j /\ pos[i] = pos[j]) => \E k \in 4..6 : ~IsFinite(dS[i][k])

\* C7: when the mass array and the positions disagree in particle count, the
\* force evaluation fails (cell 12 raises, so acc_matrix and the acceleration
\* columns of dS are never assigned).
C7_CountMismatchFails ==
    (MassCount # N /\ pc \in {"cell15", "done", "ValueError"})
        => pc = "ValueError"

(***************************************************************************)
(* Properties of the kernel section.                                       *)
(***************************************************************************)
KernelDone == pc \in {"cell27", "cell29", "cell31"}

\* ||x_i - x_j|| and ||x_i - x_j|| / h, from the positions.
Dist(i, j)  == Norm(VSub(pos[i], pos[j]))
NormR(i, j) == RDiv(Dist(i, j), h)

Range1(r) == RGe(r, Zero) /\ RLt(r, Num(1))
Range2(r) == RGe(r, Num(1)) /\ RLt(r, Num(2))
Range3(r) == RGe(r, Num(2))

\* The kernel and its gradient as the specification states them.
KernelW(r) ==
    IF Range1(r) THEN RMul(Num(alpha), RAdd(RSub(Rat(2, 3), RPow2(r)), RDiv(RPow3(r), Num(2))))
    ELSE IF Range2(r) THEN RMul(Num(alpha), RDiv(RPow3(RSub(Num(2), r)), Num(6)))
    ELSE Zero
KernelDW(r, dx, hh, dist) ==
    IF Range1(r)
    THEN VDivS(VScale(RMul(Num(alpha), RAdd(Num(-2), RMul(Rat(3, 2), r))), dx), RPow2(hh))
    ELSE IF Range2(r)
    THEN VDivS(VScale(RMul(Num(alpha), RMul(Rat(-1, 2), RPow2(RSub(Num(2), r)))), dx),
               RMul(hh, dist))
    ELSE VZero

\* C4: every pair falls in exactly one of [0,1), [1,2), [2,inf); W and dW
\* hold that range's formula; no entry is written twice and no entry with
\* R >= 2 is written at all.
C4_PiecewiseKernel ==
    KernelDone =>
        \A i, j \in 1..N :
            LET r == NormR(i, j) IN
            /\ Cardinality({b \in {1, 2, 3} :
                    (b = 1 /\ Range1(r)) \/ (b = 2 /\ Range2(r)) \/ (b = 3 /\ Range3(r))}) = 1
            /\ W[i][j] = KernelW(r)
            /\ dW[i][j] = KernelDW(r, VSub(pos[i], pos[j]), h, Dist(i, j))
            /\ wrote.W[i][j] <= 1 /\ wrote.dW[i][j] <= 1
            /\ Range3(r) => (wrote.W[i][j] = 0 /\ wrote.dW[i][j] = 0)

\* Pairs at R exactly 1 (written by the second branch) and exactly 2 (never
\* written), and an off-diagonal pair with a non-zero kernel value.
C4_Witness ==
    /\ pc = "cell31"
    /\ \E i, j \in 1..N : NormR(i, j) = Num(1) /\ wrote.W[i][j] = 1
    /\ \E i, j \in 1..N : NormR(i, j) = Num(2) /\ wrote.W[i][j] = 0
    /\ \E i, j \in 1..N : i # j /\ W[i][j] # Zero

\* The neighbours of i: the particles j # i with 0 <= R[i,j] < 2.
Neighbours(i) == {j \in 1..N : j # i /\ RGe(NormR(i, j), Zero) /\ RLt(NormR(i, j), Num(2))}

\* C5: the exposed neighbour counts equal the number of j # i with
\* 0 <= R[i,j] < 2; particle i itself is never counted.
C5_NeighbourCount ==
    pc = "cell31"
        => /\ out27 = Cardinality(Neighbours(1))
           /\ \A i \in 1..N : out29[i] = Cardinality(Neighbours(i))

\* C8: W is symmetric and dW antisymmetric, coincident particles included.
C8_Symmetry ==
    KernelDone =>
        \A i, j \in 1..N : W[i][j] = W[j][i] /\ dW[i][j] = VNeg(dW[j][i])

\* Two distinct particles at one position, and a pair with a non-zero gradient.
C8_Witness ==
    /\ KernelDone
    /\ \E i, j \in 1..N : i # j /\ pos[i] = pos[j]
    /\ \E i, j \in 1..N : dW[i][j] # VZero /\ W[i][j] # Zero

\* C9: dW[i,i] is the zero vector, and every pair for which the second
\* branch (dividing by h*r) is evaluated has r >= h > 0.
C9_NoDivisionAtZero ==
    KernelDone =>
        /\ \A i \in 1..N : dW[i][i] = VZero
        /\ \A i, j \in 1..N :
              I2[i][j] => /\ RGe(rij[i][j], h) /\ RLt(Zero, h)
                          /\ Dist(i, j) # Zero /\ i # j

\* The second branch is evaluated for some pair while two distinct
\* particles share a position.
C9_Witness ==
    /\ KernelDone
    /\ \E i, j \in 1..N : I2[i][j] /\ wrote.dW[i][j] = 1
    /\ \E i, j \in 1..N : i # j /\ pos[i] = pos[j] /\ dW[i][j] = VZero

\* The notebook's per-particle count for positions p and smoothing length hh.
CountsFor(p, hh) == SumAxis0(Mask1(ScaledDist(PairDiff(p), hh)))

\* C10: for 0 < h1 <= h2 the count of every particle with h1 is at most its
\* count with h2 (h2 being the smoothing length of the run).
C10_CountMonotone ==
    pc = "cell31"
        => \A k \in 1..MaxH :
              RGe(h, Num(k)) => \A i \in 1..N : CountsFor(pos, Num(k))[i] <= out29[i]

\* A smaller smoothing length that strictly lowers some particle's count.
C10_Witness ==
    /\ pc = "cell31"
    /\ \E k \in 1..MaxH : /\ RLt(Num(k), h)
                          /\ \E i \in 1..N : CountsFor(pos, Num(k))[i] < out29[i]

(***************************************************************************)
(* Properties of the dot-product section.                                  *)
(***************************************************************************)
Dot(u, v) == RAdd(RAdd(RMul(u[1], v[1]), RMul(u[2], v[2])), RMul(u[3], v[3]))

\* a is an N x N matrix whose (i, j) entry is dxij[i,j] . dvij[i,j].
IsDotMatrix(a) ==
    /\ a.shape = <<N, N>>
    /\ \A i, j \in 1..N : a.flat[(i - 1) * N + j] = Dot(dxij[i][j], dvij[i][j])

\* C6: each of the three formulations yields the N x N matrix of the dot
\* products dx[i,j] . dv[i,j], so the three agree at every (i, j).
C6_DotEquivalence ==
    pc = "done" => /\ IsDotMatrix(dxdvij_A)
                   /\ IsDotMatrix(dxdvij_B)
                   /\ IsDotMatrix(dxdvij_C)

====
